---- MODULE Spec2Model ----
(***************************************************************************)
(* Model of the in-memory product inventory of                             *)
(* week1/week-project/solution.js: the module-level array `products`, the  *)
(* id counter `nextId`, and the functions that read and change them.       *)
(*                                                                         *)
(* JavaScript numbers are modelled as records: Num(v) is the number v and  *)
(* NaN is the not-a-number value.  Every comparison with NaN is false and  *)
(* every sum or product with NaN is NaN, as in the language.  Prices are   *)
(* whole numbers here, so sums and products of them are exact.             *)
(*                                                                         *)
(* `call` records the last call: the function, its arguments, what it      *)
(* returned (ret) and what it printed with console.log (out).  `assigned`  *)
(* is a history variable: the ids addProduct has given to a record so far. *)
(*                                                                         *)
(* The module also models the second inventory script of the repository,   *)
(* the one in week2/monday.md (mProducts, mId, mCall).                     *)
(***************************************************************************)
EXTENDS Integers, Sequences, FiniteSets

VARIABLES products, nextId, call, assigned

vars == <<products, nextId, call, assigned>>

\* The inventory script of week2/monday.md: its array, its id counter and
\* its last call.
VARIABLES mProducts, mId, mCall

mondayVars == <<mProducts, mId, mCall>>

\* The Pokemon team builder of week2/week-project/app.js: its two module
\* variables, the value stored under 'pokemonTeam' in localStorage, the
\* contents of the two page elements it writes, the fetches that have not
\* come back yet, the ok responses whose body is still being read, and the
\* last thing that happened on the page: the event,
\* the text it came with (the input of a search, the name a response is
\* for, the name given to removeFromTeam) and the name of the search
\* started last.
VARIABLES myTeam, currentPokemon, localStorage, pokemonResult, teamDisplay,
          pending, reading, event, arg, lastStarted

pokemonVars == <<myTeam, currentPokemon, localStorage, pokemonResult,
                 teamDisplay, pending, reading, event, arg, lastStarted>>

\* The week-3 counter of unnamed/part_009: the count, the text and the
\* classes of the counter-display element, and the last event delivered.
VARIABLES count, textContent, classList, lastEvent

counterVars == <<count, textContent, classList, lastEvent>>

allVars == <<vars, mondayVars, pokemonVars, counterVars>>

----------------------------------------------------------------------------
(* Bounds of the model.                                                    *)

\* addProduct is not called once nextId has passed MaxAdds.
MaxAdds == 2

\* The same limit where the store is only filled and emptied: three
\* records, so that a removal leaves two others.
MaxRecords == 3

\* searchPokemon is not called while MaxPending of its calls are suspended,
\* at the fetch or at the reading of the body.
MaxPending == 2

----------------------------------------------------------------------------
(* JavaScript numbers.                                                     *)

Num(v) == [nan |-> FALSE, v |-> v]
NaN == [nan |-> TRUE, v |-> 0]
Zero == Num(0)

Lt(a, b) == ~a.nan /\ ~b.nan /\ a.v < b.v
Le(a, b) == ~a.nan /\ ~b.nan /\ a.v <= b.v
Mul(a, b) == IF a.nan \/ b.nan THEN NaN ELSE Num(a.v * b.v)
Add(a, b) == IF a.nan \/ b.nan THEN NaN ELSE Num(a.v + b.v)

----------------------------------------------------------------------------
(* The arguments the operations are called with.                           *)

Names == {"Laptop", "Mouse"}
Categories == {"Electronics", "Furniture"}
Prices == {Num(-1), Num(0), Num(2), NaN}
Stocks == {Num(-1), Num(0), Num(5), NaN}
Ids == 0 .. (MaxAdds + 1)
\* <<>> is a call without the argument, <<t>> a call with threshold t.
Thresholds == {<<>>, <<Num(0)>>, <<Num(5)>>, <<Num(6)>>, <<NaN>>}

----------------------------------------------------------------------------
(* Array helpers.  Array.prototype.filter is SelectSeq: the elements that   *)
(* pass the test, in their order.                                          *)

\* products.some((product) => product.id === id)
productExists(ps, id) == \E i \in 1 .. Len(ps) : ps[i].id = id

\* The index of the first record with that id (find returns the first), 0 if none.
FindIndex(ps, id) ==
    IF productExists(ps, id)
    THEN CHOOSE i \in 1 .. Len(ps) :
             /\ ps[i].id = id
             /\ \A j \in 1 .. (i - 1) : ps[j].id # id
    ELSE 0

----------------------------------------------------------------------------
(* addProduct                                                              *)

\* Faulty variant: price < 0 in place of price <= 0, a free product passes.
InvalidProduct_ZeroPrice(price, stock) == Lt(price, Zero) \/ Lt(stock, Zero)

\* if (price <= 0 || stock < 0)
InvalidProduct(price, stock) == Le(price, Zero) \/ Lt(stock, Zero)

\* Faulty variant: the id is taken from the length of the collection.
Product_IdByCount(id, name, price, category, stock) ==
    [id |-> Len(products) + 1, name |-> name, price |-> price,
     category |-> category, stock |-> stock]

\* const product = { id: nextId++, name, price, category, stock }
Product(id, name, price, category, stock) ==
    [id |-> id, name |-> name, price |-> price,
     category |-> category, stock |-> stock]

\* Faulty variant: unshift in place of push, the record goes to the front.
Push_Front(ps, p) == <<p>> \o ps

\* products.push(product)
Push(ps, p) == Append(ps, p)

\* Faulty variant: a rejected call uses up an id.
addProduct_CountsRejected(name, price, category, stock) ==
    /\ nextId <= MaxAdds
    /\ IF InvalidProduct(price, stock)
       THEN /\ call' = [op |-> "addProduct", name |-> name, price |-> price,
                        category |-> category, stock |-> stock, ret |-> FALSE,
                        out |-> <<[line |-> "Error: Price and stock must be positive numbers"]>>]
            /\ nextId' = nextId + 1
            /\ UNCHANGED <<products, assigned>>
       ELSE /\ products' = Push(products,
                                Product(nextId, name, price, category, stock))
            /\ nextId' = nextId + 1
            /\ assigned' = assigned \cup {nextId}
            /\ call' = [op |-> "addProduct", name |-> name, price |-> price,
                        category |-> category, stock |-> stock, ret |-> TRUE,
                        out |-> <<[line |-> "Product added successfully!",
                                   name |-> name]>>]

\* Faulty variant: the id counter is read but not incremented.
addProduct_KeepsCounter(name, price, category, stock) ==
    /\ Len(products) < MaxAdds
    /\ IF InvalidProduct(price, stock)
       THEN /\ call' = [op |-> "addProduct", name |-> name, price |-> price,
                        category |-> category, stock |-> stock, ret |-> FALSE,
                        out |-> <<[line |-> "Error: Price and stock must be positive numbers"]>>]
            /\ UNCHANGED <<products, nextId, assigned>>
       ELSE /\ products' = Push(products,
                                Product(nextId, name, price, category, stock))
            /\ assigned' = assigned \cup {nextId}
            /\ call' = [op |-> "addProduct", name |-> name, price |-> price,
                        category |-> category, stock |-> stock, ret |-> TRUE,
                        out |-> <<[line |-> "Product added successfully!",
                                   name |-> name]>>]
            /\ UNCHANGED nextId

addProduct(name, price, category, stock) ==
    /\ IF InvalidProduct(price, stock)
       THEN /\ call' = [op |-> "addProduct", name |-> name, price |-> price,
                        category |-> category, stock |-> stock, ret |-> FALSE,
                        out |-> <<[line |-> "Error: Price and stock must be positive numbers"]>>]
            /\ UNCHANGED <<products, nextId, assigned>>
       ELSE /\ products' = Push(products,
                                Product(nextId, name, price, category, stock))
            /\ nextId' = nextId + 1
            /\ assigned' = assigned \cup {nextId}
            /\ call' = [op |-> "addProduct", name |-> name, price |-> price,
                        category |-> category, stock |-> stock, ret |-> TRUE,
                        out |-> <<[line |-> "Product added successfully!",
                                   name |-> name]>>]

----------------------------------------------------------------------------
(* removeProduct                                                           *)

\* Faulty variant: the last record is moved into the place of the removed
\* one, which changes the order of the others.
RemoveById_SwapLast(ps, id) ==
    IF \A i \in 1 .. Len(ps) : ps[i].id # id
    THEN ps
    ELSE LET k == CHOOSE i \in 1 .. Len(ps) : ps[i].id = id
         IN [i \in 1 .. (Len(ps) - 1) |-> IF i = k THEN ps[Len(ps)] ELSE ps[i]]

\* products.filter((product) => product.id !== id)
RemoveById(ps, id) ==
    LET Keep(p) == p.id # id IN SelectSeq(ps, Keep)

\* Faulty variant: no existence check, the call always filters and returns true.
removeProduct_NoCheck(id) ==
    /\ products' = RemoveById(products, id)
    /\ call' = [op |-> "removeProduct", id |-> id, ret |-> TRUE,
                out |-> <<[line |-> "Product removed successfully!"]>>]
    /\ UNCHANGED <<nextId, assigned>>

\* Faulty variant: a removed id is handed back to the counter.
removeProduct_RecycleId(id) ==
    IF ~productExists(products, id)
    THEN /\ call' = [op |-> "removeProduct", id |-> id, ret |-> FALSE,
                     out |-> <<[line |-> "Product not found!"]>>]
         /\ UNCHANGED <<products, nextId, assigned>>
    ELSE /\ products' = RemoveById(products, id)
         /\ call' = [op |-> "removeProduct", id |-> id, ret |-> TRUE,
                     out |-> <<[line |-> "Product removed successfully!"]>>]
         /\ nextId' = id
         /\ UNCHANGED assigned

removeProduct(id) ==
    IF ~productExists(products, id)
    THEN /\ call' = [op |-> "removeProduct", id |-> id, ret |-> FALSE,
                     out |-> <<[line |-> "Product not found!"]>>]
         /\ UNCHANGED <<products, nextId, assigned>>
    ELSE /\ products' = RemoveById(products, id)
         /\ call' = [op |-> "removeProduct", id |-> id, ret |-> TRUE,
                     out |-> <<[line |-> "Product removed successfully!"]>>]
         /\ UNCHANGED <<nextId, assigned>>

----------------------------------------------------------------------------
(* updateStock                                                             *)

\* Faulty variant: newStock <= 0, a stock of zero is refused.
InvalidStock_NonPositive(newStock) == Le(newStock, Zero)

\* if (newStock < 0)
InvalidStock(newStock) == Lt(newStock, Zero)

\* Faulty variant: the assignment goes to product.price.
SetStock_Price(ps, i, newStock) == [ps EXCEPT ![i].price = newStock]

\* product.stock = newStock, on the record that find returned
SetStock(ps, i, newStock) == [ps EXCEPT ![i].stock = newStock]

\* Faulty variant: the stock is validated before the record is looked up.
updateStock_ValidityFirst(id, newStock) ==
    LET i == FindIndex(products, id) IN
    IF InvalidStock(newStock)
    THEN /\ call' = [op |-> "updateStock", id |-> id, newStock |-> newStock,
                     ret |-> FALSE,
                     out |-> <<[line |-> "Stock cannot be negative!"]>>]
         /\ UNCHANGED <<products, nextId, assigned>>
    ELSE IF i = 0
    THEN /\ call' = [op |-> "updateStock", id |-> id, newStock |-> newStock,
                     ret |-> FALSE,
                     out |-> <<[line |-> "Product not found!"]>>]
         /\ UNCHANGED <<products, nextId, assigned>>
    ELSE /\ products' = SetStock(products, i, newStock)
         /\ call' = [op |-> "updateStock", id |-> id, newStock |-> newStock,
                     ret |-> TRUE,
                     out |-> <<[line |-> "Stock updated for",
                                name |-> products[i].name]>>]
         /\ UNCHANGED <<nextId, assigned>>

updateStock(id, newStock) ==
    LET i == FindIndex(products, id) IN
    IF i = 0
    THEN /\ call' = [op |-> "updateStock", id |-> id, newStock |-> newStock,
                     ret |-> FALSE,
                     out |-> <<[line |-> "Product not found!"]>>]
         /\ UNCHANGED <<products, nextId, assigned>>
    ELSE IF InvalidStock(newStock)
    THEN /\ call' = [op |-> "updateStock", id |-> id, newStock |-> newStock,
                     ret |-> FALSE,
                     out |-> <<[line |-> "Stock cannot be negative!"]>>]
         /\ UNCHANGED <<products, nextId, assigned>>
    ELSE /\ products' = SetStock(products, i, newStock)
         /\ call' = [op |-> "updateStock", id |-> id, newStock |-> newStock,
                     ret |-> TRUE,
                     out |-> <<[line |-> "Stock updated for",
                                name |-> products[i].name]>>]
         /\ UNCHANGED <<nextId, assigned>>

----------------------------------------------------------------------------
(* getTotalValue and getLowStockProducts                                   *)

\* products.reduce((total, product) => total + product.price * product.stock, 0)
RECURSIVE Reduce(_, _)
Reduce(ps, total) ==
    IF ps = <<>> THEN total
    ELSE Reduce(Tail(ps), Add(total, Mul(Head(ps).price, Head(ps).stock)))

\* Faulty variant: total + product.price, the stock is left out.
RECURSIVE ReducePrices(_, _)
ReducePrices(ps, total) ==
    IF ps = <<>> THEN total
    ELSE ReducePrices(Tail(ps), Add(total, Head(ps).price))

getTotalValue_PriceOnly(ps) == ReducePrices(ps, Zero)

getTotalValue(ps) == Reduce(ps, Zero)

CallGetTotalValue ==
    /\ call' = [op |-> "getTotalValue", ret |-> getTotalValue(products)]
    /\ UNCHANGED <<products, nextId, assigned>>

\* function getLowStockProducts(threshold = 5)
DefaultThreshold == 5

Threshold(args) == IF args = <<>> THEN Num(DefaultThreshold) ELSE args[1]

\* Faulty variant: product.stock <= threshold.
getLowStockProducts_AtOrBelow(ps, args) ==
    LET Keep(p) == Le(p.stock, Threshold(args)) IN SelectSeq(ps, Keep)

\* products.filter((product) => product.stock < threshold)
getLowStockProducts(ps, args) ==
    LET Keep(p) == Lt(p.stock, Threshold(args)) IN SelectSeq(ps, Keep)

CallGetLowStockProducts(args) ==
    /\ call' = [op |-> "getLowStockProducts", args |-> args,
                ret |-> getLowStockProducts(products, args)]
    /\ UNCHANGED <<products, nextId, assigned>>

----------------------------------------------------------------------------
(* searchProducts.  A string is the sequence of its characters; Chars      *)
(* spells out the strings the model uses.                                  *)

Chars(str) ==
    CASE str = "Laptop" -> <<"L", "a", "p", "t", "o", "p">>
      [] str = "Mouse" -> <<"M", "o", "u", "s", "e">>
      [] str = "Electronics" ->
             <<"E", "l", "e", "c", "t", "r", "o", "n", "i", "c", "s">>
      [] str = "Furniture" -> <<"F", "u", "r", "n", "i", "t", "u", "r", "e">>
      [] str = "" -> <<>>
      [] str = "lap" -> <<"l", "a", "p">>
      [] str = "TOP" -> <<"T", "O", "P">>
      [] str = "ELECTRONICS" ->
             <<"E", "L", "E", "C", "T", "R", "O", "N", "I", "C", "S">>
      [] str = "mouse" -> <<"m", "o", "u", "s", "e">>
      [] str = "e" -> <<"e">>
      [] str = "desk" -> <<"d", "e", "s", "k">>
      [] str = "Pikachu" -> <<"P", "i", "k", "a", "c", "h", "u">>
      [] str = "pikachu" -> <<"p", "i", "k", "a", "c", "h", "u">>
      [] str = "eevee" -> <<"e", "e", "v", "e", "e">>
      [] str = "MissingNo" -> <<"M", "i", "s", "s", "i", "n", "g", "N", "o">>
      [] str = "missingno" -> <<"m", "i", "s", "s", "i", "n", "g", "n", "o">>

\* The query arguments of searchProducts.
Queries == {"", "lap", "TOP", "ELECTRONICS", "mouse", "e", "desk"}

UpperCase ==
    <<"A", "B", "C", "D", "E", "F", "G", "H", "I", "J", "K", "L", "M",
      "N", "O", "P", "Q", "R", "S", "T", "U", "V", "W", "X", "Y", "Z">>
LowerCase ==
    <<"a", "b", "c", "d", "e", "f", "g", "h", "i", "j", "k", "l", "m",
      "n", "o", "p", "q", "r", "s", "t", "u", "v", "w", "x", "y", "z">>

\* String.prototype.toLowerCase
toLowerCase(cs) ==
    [k \in 1 .. Len(cs) |->
        IF \E i \in 1 .. Len(UpperCase) : UpperCase[i] = cs[k]
        THEN LowerCase[CHOOSE i \in 1 .. Len(UpperCase) : UpperCase[i] = cs[k]]
        ELSE cs[k]]

\* String.prototype.includes
includes(cs, qs) ==
    \E k \in 0 .. (Len(cs) - Len(qs)) : SubSeq(cs, k + 1, k + Len(qs)) = qs

\* Faulty variant: the query is not lowered, the search is case-sensitive
\* in the query.
searchProducts_QueryAsTyped(ps, query) ==
    LET q == Chars(query)
        Keep(p) == \/ includes(toLowerCase(Chars(p.name)), q)
                   \/ includes(toLowerCase(Chars(p.category)), q)
    IN SelectSeq(ps, Keep)

\* query = query.toLowerCase(); return products.filter(...)
searchProducts(ps, query) ==
    LET q == toLowerCase(Chars(query))
        Keep(p) == \/ includes(toLowerCase(Chars(p.name)), q)
                   \/ includes(toLowerCase(Chars(p.category)), q)
    IN SelectSeq(ps, Keep)

\* Faulty variant: a message is printed when nothing matches.
searchProductsOutput_MessageWhenEmpty(ps, query) ==
    IF searchProducts(ps, query) = <<>>
    THEN <<[line |-> "Product name or category not found!"]>>
    ELSE <<>>

\* What searchProducts prints: it has no console.log.
searchProductsOutput(ps, query) == <<>>

\* Faulty variant: the filter result is assigned to products.
CallSearchProducts_Assigns(query) ==
    /\ call' = [op |-> "searchProducts", query |-> query,
                ret |-> searchProducts(products, query),
                out |-> searchProductsOutput(products, query)]
    /\ products' = searchProducts(products, query)
    /\ UNCHANGED <<nextId, assigned>>

CallSearchProducts(query) ==
    /\ call' = [op |-> "searchProducts", query |-> query,
                ret |-> searchProducts(products, query),
                out |-> searchProductsOutput(products, query)]
    /\ UNCHANGED <<products, nextId, assigned>>

----------------------------------------------------------------------------
(* displayProducts.  What it prints is a sequence of console.log calls;    *)
(* the call for a record carries the values put into its template.         *)

\* Number.prototype.toFixed(2) of a whole number or of NaN.
toFixed2(x) ==
    IF x.nan THEN [text |-> "NaN"] ELSE [int |-> x.v, frac |-> <<0, 0>>]

\* The console.log of one record (the forEach body).
ProductLine(p) ==
    [line |-> "product", id |-> p.id, name |-> p.name,
     price |-> toFixed2(p.price), category |-> p.category, stock |-> p.stock]

\* Faulty variant: the total value is printed after the records, as the
\* displayProducts of the other script does.
displayProductsOutput_WithTotal(ps) ==
    IF Len(ps) = 0
    THEN <<[line |-> "No products in inventory!"]>>
    ELSE <<[line |-> "Current Inventory:"],
           [line |-> "----------------------------------------"]>>
         \o [k \in 1 .. Len(ps) |-> ProductLine(ps[k])]
         \o <<[line |-> "total", value |-> getTotalValue(ps)]>>

displayProductsOutput(ps) ==
    IF Len(ps) = 0
    THEN <<[line |-> "No products in inventory!"]>>
    ELSE <<[line |-> "Current Inventory:"],
           [line |-> "----------------------------------------"]>>
         \o [k \in 1 .. Len(ps) |-> ProductLine(ps[k])]

CallDisplayProducts ==
    /\ call' = [op |-> "displayProducts", out |-> displayProductsOutput(products)]
    /\ UNCHANGED <<products, nextId, assigned>>

----------------------------------------------------------------------------
(* The inventory script of week2/monday.md, lines 307-356.  Its functions   *)
(* return true, false or nothing (undefined), so their results are tagged  *)
(* values.                                                                 *)

JsBool(b) == [type |-> "boolean", b |-> b]
Undefined == [type |-> "undefined"]

\* Faulty variant: only a negative stock is refused, as in solution.js.
mInvalidStock_NegativeOnly(newStock) == Lt(newStock, Zero)

\* if (newStock <= 0)
mInvalidStock(newStock) == Le(newStock, Zero)

mAddProduct(name, price, category, stock) ==
    /\ mId <= MaxAdds
    /\ IF InvalidProduct(price, stock)
       THEN /\ mCall' = [op |-> "addProduct", name |-> name, price |-> price,
                         category |-> category, stock |-> stock,
                         ret |-> Undefined,
                         out |-> <<[line |-> "Fatal Error: Price and stock must be positive numbers"]>>]
            /\ UNCHANGED <<mProducts, mId>>
       ELSE /\ mProducts' = Push(mProducts,
                                 Product(mId, name, price, category, stock))
            /\ mId' = mId + 1
            /\ mCall' = [op |-> "addProduct", name |-> name, price |-> price,
                         category |-> category, stock |-> stock,
                         ret |-> JsBool(TRUE),
                         out |-> <<[line |-> "Added successfully!",
                                    name |-> name]>>]

mRemoveProduct(id) ==
    IF FindIndex(mProducts, id) = 0
    THEN /\ mCall' = [op |-> "removeProduct", id |-> id, ret |-> JsBool(FALSE),
                      out |-> <<[line |-> "The ID is not found!", id |-> id]>>]
         /\ UNCHANGED <<mProducts, mId>>
    ELSE /\ mProducts' = RemoveById(mProducts, id)
         /\ mCall' = [op |-> "removeProduct", id |-> id, ret |-> JsBool(TRUE),
                      out |-> <<[line |-> "The ID is found! The product is removed sucessfully!",
                                 id |-> id]>>]
         /\ UNCHANGED mId

mUpdateStock(id, newStock) ==
    LET i == FindIndex(mProducts, id) IN
    IF i = 0
    THEN /\ mCall' = [op |-> "updateStock", id |-> id, newStock |-> newStock,
                      ret |-> JsBool(FALSE),
                      out |-> <<[line |-> "The ID is not found!", id |-> id]>>]
         /\ UNCHANGED <<mProducts, mId>>
    ELSE IF mInvalidStock(newStock)
    THEN /\ mCall' = [op |-> "updateStock", id |-> id, newStock |-> newStock,
                      ret |-> JsBool(FALSE),
                      out |-> <<[line |-> "Invalid value! The value cannot be negative."]>>]
         /\ UNCHANGED <<mProducts, mId>>
    ELSE /\ mProducts' = SetStock(mProducts, i, newStock)
         /\ mCall' = [op |-> "updateStock", id |-> id, newStock |-> newStock,
                      ret |-> Undefined,
                      out |-> <<[line |-> "The product has been updated",
                                 name |-> mProducts[i].name,
                                 stock |-> newStock]>>]
         /\ UNCHANGED mId

----------------------------------------------------------------------------
(* The Pokemon team builder, app.js.  JavaScript values of more than one   *)
(* type are tagged records.                                                *)

JsNull == [type |-> "null"]
JsString(str) == [type |-> "string", s |-> str]

\* The most Pokemon a team holds: the 6 of "if (myTeam.length >= 6)".
MaxTeam == 6

\* What pokeapi.co knows: the part of a Pokemon the page reads.  A sprite
\* may be null.
Pokedex ==
    {[name |-> "pikachu",
      sprites |-> [front_default |-> JsString("pikachu.png")]],
     [name |-> "eevee", sprites |-> [front_default |-> JsNull]]}

\* What the user may have typed into pokemonInput when a search starts.
Inputs == {"", "Pikachu", "eevee", "MissingNo"}

\* The names removeFromTeam is called with.
TeamNames == {"bulbasaur", "snorlax", "pikachu", "eevee", "missingno"}

\* A team the page saved on an earlier visit.
SavedTeam ==
    <<[name |-> "bulbasaur", img |-> JsString("bulbasaur.png")],
      [name |-> "charmander", img |-> JsString("charmander.png")],
      [name |-> "squirtle", img |-> JsString("squirtle.png")],
      [name |-> "snorlax", img |-> JsNull],
      [name |-> "mew", img |-> JsString("mew.png")]>>

\* JSON text is the sequence of its tokens: punctuation, string literals
\* and the literal null.
Punct(c) == [tok |-> "punct", c |-> c]
StrLit(str) == [tok |-> "string", s |-> str]
NullLit == [tok |-> "null"]

\* Faulty variant: null is written as the string "null".
ValueTokens_NullAsString(v) ==
    IF v.type = "null" THEN <<StrLit("null")>> ELSE <<StrLit(v.s)>>

\* The JSON text of a string-or-null value.
ValueTokens(v) == IF v.type = "null" THEN <<NullLit>> ELSE <<StrLit(v.s)>>

\* The JSON text of one team member, {"name":...,"img":...}.
MemberTokens(m) ==
    <<Punct("{"), StrLit("name"), Punct(":"), StrLit(m.name), Punct(","),
      StrLit("img"), Punct(":")>> \o ValueTokens(m.img) \o <<Punct("}")>>

RECURSIVE MembersTokens(_)
MembersTokens(team) ==
    IF team = <<>> THEN <<>>
    ELSE IF Len(team) = 1 THEN MemberTokens(team[1])
    ELSE MemberTokens(team[1]) \o <<Punct(",")>> \o MembersTokens(Tail(team))

\* JSON.stringify(myTeam)
JSONstringify(team) ==
    JsString(<<Punct("[")>> \o MembersTokens(team) \o <<Punct("]")>>)

\* The value a token stands for.
TokenValue(t) == IF t.tok = "null" THEN JsNull ELSE JsString(t.s)

\* The members read from tokens i onward, up to the closing bracket.  An
\* object is nine tokens: { key : value , key : value }.
RECURSIVE ParseMembers(_, _)
ParseMembers(toks, i) ==
    IF toks[i] = Punct("]") THEN <<>>
    ELSE IF toks[i] = Punct(",") THEN ParseMembers(toks, i + 1)
    ELSE LET k1 == toks[i + 1].s
             v1 == toks[i + 3]
             k2 == toks[i + 5].s
             v2 == toks[i + 7]
             Field(k) == IF k1 = k THEN v1 ELSE v2
         IN <<[name |-> Field("name").s, img |-> TokenValue(Field("img"))]>>
            \o ParseMembers(toks, i + 9)

\* JSON.parse: null for null (getItem found nothing), else the array the
\* text spells.
JSONparse(v) ==
    IF v.type = "null" THEN JsNull
    ELSE [type |-> "array", items |-> ParseMembers(v.s, 2)]

\* JSON.parse(localStorage.getItem('pokemonTeam')) || []
LoadTeam(stored) ==
    LET parsed == JSONparse(stored)
    IN IF parsed.type = "null" THEN <<>> ELSE parsed.items

\* displayTeam: one block per member, with its image, its name and a
\* Remove button for that name.
displayTeam(team) ==
    [k \in 1 .. Len(team) |->
        [img |-> team[k].img, name |-> team[k].name, remove |-> team[k].name]]

\* displayPokemon: the card with the name, the image and the Add button.
displayPokemon(pokemon) ==
    [kind |-> "card", name |-> pokemon.name,
     img |-> pokemon.sprites.front_default, button |-> "Add to Team"]

\* The card the catch block writes.
ErrorCard(message) == [kind |-> "error", message |-> message]

\* The page after the script has run with `stored` under 'pokemonTeam':
\* lines 1-3 and the displayTeam() of line 87.
Loaded(stored) ==
    /\ localStorage = stored
    /\ myTeam = LoadTeam(stored)
    /\ currentPokemon = JsNull
    /\ pokemonResult = [kind |-> "empty"]
    /\ teamDisplay = displayTeam(LoadTeam(stored))
    /\ pending = <<>>
    /\ reading = <<>>
    /\ event = "load"
    /\ arg = ""
    /\ lastStarted = ""

\* The name the request asks for: the input, lowered.
RequestName(input) ==
    LET lowered == toLowerCase(Chars(input))
    IN CHOOSE str \in {"", "pikachu", "eevee", "missingno"} :
           Chars(str) = lowered

\* Faulty variant: the fetch is sent whatever the input is.
searchPokemon_NoInputCheck(input) ==
    /\ Len(pending) + Len(reading) < MaxPending
    /\ pending' = Append(pending, RequestName(input))
    /\ event' = "search: fetch sent"
    /\ arg' = input
    /\ lastStarted' = RequestName(input)
    /\ UNCHANGED <<myTeam, currentPokemon, localStorage, pokemonResult,
                   teamDisplay, reading>>

\* searchPokemon up to its first await (line 12): nothing happens on an
\* empty input, else the fetch is sent.
searchPokemon(input) ==
    /\ Len(pending) + Len(reading) < MaxPending
    /\ IF RequestName(input) = ""
       THEN /\ event' = "search: no input"
            /\ arg' = input
            /\ UNCHANGED lastStarted
            /\ UNCHANGED pending
       ELSE /\ pending' = Append(pending, RequestName(input))
            /\ event' = "search: fetch sent"
            /\ arg' = input
            /\ lastStarted' = RequestName(input)
    /\ UNCHANGED <<myTeam, currentPokemon, localStorage, pokemonResult,
                   teamDisplay, reading>>

\* The sequence without its k-th element.
Without(seq, k) == SubSeq(seq, 1, k - 1) \o SubSeq(seq, k + 1, Len(seq))

\* The k-th fetch in flight comes back with a response, ok or not
\* (lines 12-17).  On an ok response searchPokemon awaits the body at line 18
\* and nothing on the page has changed yet; a response that is not ok throws
\* into the catch block.
SearchReturns(k, ok) ==
    /\ k \in 1 .. Len(pending)
    /\ pending' = Without(pending, k)
    /\ arg' = pending[k]
    /\ IF ok
       THEN /\ reading' = Append(reading, pending[k])
            /\ event' = "search: response ok"
            /\ UNCHANGED <<currentPokemon, pokemonResult>>
       ELSE /\ pokemonResult' = ErrorCard("Pokemon not found")
            /\ currentPokemon' = JsNull
            /\ event' = "search: failed"
            /\ UNCHANGED reading
    /\ UNCHANGED <<myTeam, localStorage, teamDisplay, lastStarted>>

\* The body of the j-th ok response has been read and parsed (lines 18-20):
\* the Pokemon is stored and shown.  Only a name the API knows has such a
\* body.
BodyRead(j) ==
    /\ j \in 1 .. Len(reading)
    /\ \E p \in Pokedex : p.name = reading[j]
    /\ LET found == CHOOSE p \in Pokedex : p.name = reading[j]
       IN /\ currentPokemon' = found
          /\ pokemonResult' = displayPokemon(found)
    /\ reading' = Without(reading, j)
    /\ event' = "search: found"
    /\ arg' = reading[j]
    /\ UNCHANGED <<myTeam, localStorage, teamDisplay, pending, lastStarted>>

\* response.json() of the j-th ok response rejects (line 18): the catch
\* block runs with the error of the parser.
BodyFails(j) ==
    /\ j \in 1 .. Len(reading)
    /\ reading' = Without(reading, j)
    /\ pokemonResult' = ErrorCard("Unexpected end of JSON input")
    /\ currentPokemon' = JsNull
    /\ event' = "search: bad body"
    /\ arg' = reading[j]
    /\ UNCHANGED <<myTeam, localStorage, teamDisplay, pending, lastStarted>>

\* Faulty variant: the catch block forgets the current Pokemon but leaves
\* the result area as it was.
SearchFails_NoErrorCard(k) ==
    /\ k \in 1 .. Len(pending)
    /\ pending' = Without(pending, k)
    /\ currentPokemon' = JsNull
    /\ event' = "search: no response"
    /\ arg' = pending[k]
    /\ UNCHANGED <<myTeam, localStorage, teamDisplay, pokemonResult,
                   reading, lastStarted>>

\* The k-th fetch in flight is rejected (no network): the catch block runs
\* with the error of fetch.
SearchFails(k) ==
    /\ k \in 1 .. Len(pending)
    /\ pending' = Without(pending, k)
    /\ pokemonResult' = ErrorCard("Failed to fetch")
    /\ currentPokemon' = JsNull
    /\ event' = "search: no response"
    /\ arg' = pending[k]
    /\ UNCHANGED <<myTeam, localStorage, teamDisplay, reading, lastStarted>>

\* Faulty variant: only the first member is compared.
InTeam_FirstOnly(team, name) == team # <<>> /\ team[1].name = name

\* myTeam.some((p) => p.name === currentPokemon.name)
InTeam(team, name) == \E i \in 1 .. Len(team) : team[i].name = name

\* Faulty variant: the team is full only once it is over the limit.
TeamFull_Over(team) == Len(team) > MaxTeam

\* if (myTeam.length >= 6)
TeamFull(team) == Len(team) >= MaxTeam

\* const pokemonToAdd = { name: ..., img: ... }
pokemonToAdd(pokemon) ==
    [name |-> pokemon.name, img |-> pokemon.sprites.front_default]

\* addToTeam.  With no current Pokemon, reading currentPokemon.name throws
\* and the call ends there.
addToTeam ==
    IF TeamFull(myTeam)
    THEN /\ event' = "addToTeam: team is full"
         /\ arg' = ""
         /\ UNCHANGED lastStarted
         /\ UNCHANGED <<myTeam, currentPokemon, localStorage, pokemonResult,
                        teamDisplay, pending, reading>>
    ELSE IF currentPokemon = JsNull
    THEN /\ event' = "addToTeam: TypeError"
         /\ arg' = ""
         /\ UNCHANGED lastStarted
         /\ UNCHANGED <<myTeam, currentPokemon, localStorage, pokemonResult,
                        teamDisplay, pending, reading>>
    ELSE IF InTeam(myTeam, currentPokemon.name)
    THEN /\ event' = "addToTeam: already in team"
         /\ arg' = ""
         /\ UNCHANGED lastStarted
         /\ UNCHANGED <<myTeam, currentPokemon, localStorage, pokemonResult,
                        teamDisplay, pending, reading>>
    ELSE /\ myTeam' = Append(myTeam, pokemonToAdd(currentPokemon))
         /\ localStorage' = JSONstringify(myTeam')
         /\ teamDisplay' = displayTeam(myTeam')
         /\ event' = "addToTeam: added"
         /\ arg' = ""
         /\ UNCHANGED lastStarted
         /\ UNCHANGED <<currentPokemon, pokemonResult, pending, reading>>

\* Faulty variant: the filter keeps the named member and drops the rest.
RemoveByName_Inverted(team, pokemonName) ==
    LET Keep(m) == m.name = pokemonName IN SelectSeq(team, Keep)

\* myTeam.filter((pokemon) => pokemon.name !== pokemonName)
RemoveByName(team, pokemonName) ==
    LET Keep(m) == m.name # pokemonName IN SelectSeq(team, Keep)

removeFromTeam(pokemonName) ==
    /\ myTeam' = RemoveByName(myTeam, pokemonName)
    /\ localStorage' = JSONstringify(myTeam')
    /\ teamDisplay' = displayTeam(myTeam')
    /\ event' = "removeFromTeam"
    /\ arg' = pokemonName
    /\ UNCHANGED lastStarted
    /\ UNCHANGED <<currentPokemon, pokemonResult, pending, reading>>

\* A page refresh: the script runs again on what localStorage holds; the
\* fetches and the suspended calls of the old page are gone.
Reload ==
    /\ myTeam' = LoadTeam(localStorage)
    /\ currentPokemon' = JsNull
    /\ pokemonResult' = [kind |-> "empty"]
    /\ teamDisplay' = displayTeam(myTeam')
    /\ pending' = <<>>
    /\ reading' = <<>>
    /\ event' = "load"
    /\ arg' = ""
    /\ lastStarted' = ""
    /\ UNCHANGED localStorage

----------------------------------------------------------------------------
(* The week-3 counter, unnamed/part_009.                                   *)

min == -10
max == 10

\* The keys pressed: the two the handler acts on and two it ignores.
Keys == {"ArrowUp", "ArrowDown", "ArrowLeft", "Enter"}

DigitChar(d) == <<"0", "1", "2", "3", "4", "5", "6", "7", "8", "9">>[d + 1]

RECURSIVE NatChars(_)
NatChars(n) ==
    IF n < 10 THEN <<DigitChar(n)>>
    ELSE NatChars(n \div 10) \o <<DigitChar(n % 10)>>

\* The text a number becomes when it is assigned to textContent.
String(n) == IF n < 0 THEN <<"-">> \o NatChars(-n) ELSE NatChars(n)

\* count === min || count === max
AtLimit(n) == n = min \/ n = max

\* updateCounter, for the count just assigned.
updateCounter ==
    /\ textContent' = String(count')
    /\ classList' = IF AtLimit(count')
                    THEN classList \cup {"limit-reached"}
                    ELSE classList \ {"limit-reached"}

\* Faulty variant: the lower limit itself may be decremented.
CanDecrement_AtMin(n) == n >= min

\* count > min
CanDecrement(n) == n > min

\* count < max
CanIncrement(n) == n < max

\* The click handler of the decrement button.
DecrementClick ==
    /\ lastEvent' = "click decrement"
    /\ IF CanDecrement(count)
       THEN count' = count - 1 /\ updateCounter
       ELSE UNCHANGED <<count, textContent, classList>>

\* The keydown handler of the document.
KeyDown(key) ==
    /\ lastEvent' = key
    /\ IF key = "ArrowUp" /\ CanIncrement(count)
       THEN count' = count + 1 /\ updateCounter
       ELSE IF key = "ArrowDown" /\ CanDecrement(count)
       THEN count' = count - 1 /\ updateCounter
       ELSE UNCHANGED <<count, textContent, classList>>

\* The page as its HTML gives it, <div class="counter-display">0</div>,
\* with count = 0 and no event yet.
CounterInit ==
    /\ count = 0
    /\ textContent = <<"0">>
    /\ classList = {"counter-display"}
    /\ lastEvent = "none"

----------------------------------------------------------------------------
(* The programs after their top-level declarations.                        *)

InventoryInit ==
    /\ products = <<>>
    /\ nextId = 1
    /\ call = [op |-> "none"]
    /\ assigned = {}

MondayInit ==
    /\ mProducts = <<>>
    /\ mId = 1
    /\ mCall = [op |-> "none"]

Init ==
    /\ InventoryInit
    /\ MondayInit
    /\ Loaded(JsNull)
    /\ CounterInit

----------------------------------------------------------------------------
(* The store of solution.js under any sequence of calls; the other script  *)
(* is not run.                                                             *)

Next ==
    \/ \E name \in Names, price \in Prices, category \in Categories,
          stock \in Stocks :
          /\ nextId <= MaxAdds
          /\ addProduct(name, price, category, stock)
          /\ UNCHANGED <<mondayVars, pokemonVars, counterVars>>
    \/ \E id \in Ids : removeProduct(id) /\ UNCHANGED <<mondayVars, pokemonVars, counterVars>>
    \/ \E id \in Ids, newStock \in Stocks :
          updateStock(id, newStock) /\ UNCHANGED <<mondayVars, pokemonVars, counterVars>>
    \/ CallGetTotalValue /\ UNCHANGED <<mondayVars, pokemonVars, counterVars>>
    \/ \E args \in Thresholds :
          CallGetLowStockProducts(args) /\ UNCHANGED <<mondayVars, pokemonVars, counterVars>>

Spec == Init /\ [][Next]_allVars

----------------------------------------------------------------------------
(* The store as a catalogue: products are added with a price and a stock   *)
(* that pass the validation, removed, restocked, and read by the four      *)
(* query functions.                                                        *)

CataloguePrices == {Num(2), NaN}
CatalogueStocks == {Num(0), Num(5)}

NextCatalogue ==
    \/ \E name \in Names, price \in CataloguePrices, category \in Categories,
          stock \in CatalogueStocks :
          /\ nextId <= MaxAdds
          /\ addProduct(name, price, category, stock)
          /\ UNCHANGED <<mondayVars, pokemonVars, counterVars>>
    \/ \E id \in Ids : removeProduct(id) /\ UNCHANGED <<mondayVars, pokemonVars, counterVars>>
    \/ \E id \in Ids, newStock \in CatalogueStocks :
          updateStock(id, newStock) /\ UNCHANGED <<mondayVars, pokemonVars, counterVars>>
    \/ CallGetTotalValue /\ UNCHANGED <<mondayVars, pokemonVars, counterVars>>
    \/ \E args \in Thresholds :
          CallGetLowStockProducts(args) /\ UNCHANGED <<mondayVars, pokemonVars, counterVars>>
    \/ \E query \in Queries : CallSearchProducts(query) /\ UNCHANGED <<mondayVars, pokemonVars, counterVars>>
    \/ CallDisplayProducts /\ UNCHANGED <<mondayVars, pokemonVars, counterVars>>

SpecCatalogue == Init /\ [][NextCatalogue]_allVars

----------------------------------------------------------------------------
(* The store filled and emptied: up to MaxRecords products are added, with *)
(* a price and a stock that pass the validation or a stock that does not,  *)
(* and removed in any order.                                               *)

ShelfStocks == {Num(-1), Num(5)}
ShelfIds == 0 .. (MaxRecords + 1)

NextShelf ==
    \/ \E name \in Names, category \in Categories, stock \in ShelfStocks :
          /\ nextId <= MaxRecords
          /\ addProduct(name, Num(2), category, stock)
          /\ UNCHANGED <<mondayVars, pokemonVars, counterVars>>
    \/ \E id \in ShelfIds : removeProduct(id) /\ UNCHANGED <<mondayVars, pokemonVars, counterVars>>

SpecShelf == Init /\ [][NextShelf]_allVars

----------------------------------------------------------------------------
(* The two inventory scripts given the same calls, one after the other.    *)

\* The names and categories given to both scripts: neither script reads
\* them in addProduct, removeProduct or updateStock.
BothNames == {"Laptop"}
BothCategories == {"Electronics", "Furniture"}

NextBoth ==
    \/ \E name \in BothNames, price \in Prices, category \in BothCategories,
          stock \in Stocks :
          /\ nextId <= MaxAdds
          /\ addProduct(name, price, category, stock)
          /\ mAddProduct(name, price, category, stock)
          /\ UNCHANGED <<pokemonVars, counterVars>>
    \/ \E id \in Ids :
          removeProduct(id) /\ mRemoveProduct(id) /\ UNCHANGED <<pokemonVars, counterVars>>
    \/ \E id \in Ids, newStock \in Stocks :
          /\ updateStock(id, newStock)
          /\ mUpdateStock(id, newStock)
          /\ UNCHANGED <<pokemonVars, counterVars>>

SpecBoth == Init /\ [][NextBoth]_allVars

----------------------------------------------------------------------------
(* The Pokemon team builder: the page is opened with nothing stored or     *)
(* with a team it saved before, and then anything happens on it.           *)

InitPokemon ==
    /\ InventoryInit
    /\ MondayInit
    /\ \E stored \in {JsNull, JSONstringify(SavedTeam)} : Loaded(stored)
    /\ CounterInit

NextPokemon ==
    \/ \E input \in Inputs : searchPokemon(input) /\ UNCHANGED <<vars, mondayVars, counterVars>>
    \/ \E k \in 1 .. MaxPending, ok \in BOOLEAN :
          SearchReturns(k, ok) /\ UNCHANGED <<vars, mondayVars, counterVars>>
    \/ \E j \in 1 .. MaxPending : BodyRead(j) /\ UNCHANGED <<vars, mondayVars, counterVars>>
    \/ \E j \in 1 .. MaxPending : BodyFails(j) /\ UNCHANGED <<vars, mondayVars, counterVars>>
    \/ \E k \in 1 .. MaxPending : SearchFails(k) /\ UNCHANGED <<vars, mondayVars, counterVars>>
    \/ addToTeam /\ UNCHANGED <<vars, mondayVars, counterVars>>
    \/ \E name \in TeamNames : removeFromTeam(name) /\ UNCHANGED <<vars, mondayVars, counterVars>>
    \/ Reload /\ UNCHANGED <<vars, mondayVars, counterVars>>

SpecPokemon == InitPokemon /\ [][NextPokemon]_allVars

----------------------------------------------------------------------------
(* The counter: clicks on the decrement button and key presses, in any     *)
(* order.                                                                  *)

NextCounter ==
    \/ DecrementClick /\ UNCHANGED <<vars, mondayVars, pokemonVars>>
    \/ \E key \in Keys : KeyDown(key) /\ UNCHANGED <<vars, mondayVars, pokemonVars>>

SpecCounter == Init /\ [][NextCounter]_allVars

----------------------------------------------------------------------------
(* Properties of the inventory store.  A property of a call is stated on   *)
(* the step that makes it: call' names the function and its arguments,     *)
(* the unprimed variables are the store before the call and the primed     *)
(* ones the store after it.                                                *)

\* JavaScript > and >=, false when an operand is NaN.
Gt(a, b) == Lt(b, a)
Ge(a, b) == Le(b, a)

HasId(ps, id) == \E i \in 1 .. Len(ps) : ps[i].id = id
IdsOf(ps) == {ps[i].id : i \in 1 .. Len(ps)}

\* C1: addProduct with price <= 0 or stock < 0 returns false and leaves the
\* collection exactly as it was, from every reachable store.
C1_RejectedAddAppendsNothing ==
    [][(/\ call'.op = "addProduct"
        /\ (Le(call'.price, Zero) \/ Lt(call'.stock, Zero)))
       => (call'.ret = FALSE /\ products' = products)]_vars

C1_Witness ==
    /\ call.op = "addProduct"
    /\ Le(call.price, Zero)
    /\ Ge(call.stock, Zero)
    /\ call.ret = FALSE
    /\ Len(products) >= 1

\* C2: addProduct with price > 0 and stock >= 0 returns true and appends, at
\* the end, exactly one record with the given name, price, category and stock
\* and with the value of the counter before the call as its id; the earlier
\* records are unchanged.
C2_AcceptedAddAppendsOne ==
    [][(/\ call'.op = "addProduct"
        /\ Gt(call'.price, Zero)
        /\ Ge(call'.stock, Zero))
       => (/\ call'.ret = TRUE
           /\ Len(products') = Len(products) + 1
           /\ \A i \in 1 .. Len(products) : products'[i] = products[i]
           /\ products'[Len(products')].id = nextId
           /\ products'[Len(products')].name = call'.name
           /\ products'[Len(products')].price = call'.price
           /\ products'[Len(products')].category = call'.category
           /\ products'[Len(products')].stock = call'.stock)]_vars

C2_Witness ==
    /\ call.op = "addProduct"
    /\ call.ret = TRUE
    /\ Gt(call.price, Zero)
    /\ Ge(call.stock, Zero)
    /\ Len(products) >= 2
    /\ products[Len(products)].id = nextId - 1
    /\ products[Len(products)].name = call.name
    /\ products[1].name # call.name

\* C3: no two records of the collection have the same id, and a record that
\* enters the collection never gets an id that was assigned before, also when
\* the record that held that id has been removed.
C3_IdsUniqueNeverReused ==
    /\ [](\A i, j \in 1 .. Len(products) :
             i # j => products[i].id # products[j].id)
    /\ [][\A i \in 1 .. Len(products') :
             products'[i].id \notin IdsOf(products)
                 => products'[i].id \notin assigned]_vars

\* An id was assigned, its record removed, and a later record added.
C3_Witness ==
    /\ call.op = "addProduct"
    /\ call.ret = TRUE
    /\ Cardinality(assigned) >= 2
    /\ Len(products) = 1
    /\ 1 \notin IdsOf(products)

\* C4: after any sequence of calls, with any numbers as arguments, every
\* record of the collection has price > 0 and stock >= 0.
C4_PricePositiveStockNonNegative ==
    \A i \in 1 .. Len(products) :
        Gt(products[i].price, Zero) /\ Ge(products[i].stock, Zero)

\* C5: removeProduct with an id that no record has returns false and leaves
\* the collection and the id counter unchanged.
C5_RemoveUnknownIdChangesNothing ==
    [][(call'.op = "removeProduct" /\ ~HasId(products, call'.id))
       => (call'.ret = FALSE /\ products' = products /\ nextId' = nextId)]_vars

\* The id was assigned once, is no longer in the non-empty collection, and
\* the removal of it was refused.
C5_Witness ==
    /\ call.op = "removeProduct"
    /\ call.ret = FALSE
    /\ call.id \in assigned
    /\ Len(products) >= 1

\* C6: removeProduct with an id that is in the collection returns true and
\* removes exactly the record with that id: no record has the id afterwards,
\* and the other records remain, unchanged and in their order.
C6_RemoveKnownIdRemovesExactlyIt ==
    [][(call'.op = "removeProduct" /\ HasId(products, call'.id))
       => (/\ call'.ret = TRUE
           /\ ~HasId(products', call'.id)
           /\ \E k \in 1 .. Len(products) :
                 /\ products[k].id = call'.id
                 /\ products' = SubSeq(products, 1, k - 1)
                                  \o SubSeq(products, k + 1, Len(products)))]_vars

\* The first of three records has been removed: the second and the third
\* are left, in that order.
C6_Witness ==
    /\ call.op = "removeProduct"
    /\ call.ret = TRUE
    /\ call.id = 1
    /\ Len(products) = 2
    /\ products[1].id = 2
    /\ products[2].id = 3
    /\ ~HasId(products, call.id)

\* C7: updateStock on an existing id with newStock >= 0 sets that record's
\* stock to newStock and changes nothing else: not the record's other fields,
\* not another record, not the length or the order of the collection.
C7_UpdateStockChangesOnlyThatStock ==
    [][(/\ call'.op = "updateStock"
        /\ HasId(products, call'.id)
        /\ Ge(call'.newStock, Zero))
       => (/\ Len(products') = Len(products)
           /\ \A i \in 1 .. Len(products) :
                 IF products[i].id = call'.id
                 THEN /\ products'[i].stock = call'.newStock
                      /\ products'[i].id = products[i].id
                      /\ products'[i].name = products[i].name
                      /\ products'[i].price = products[i].price
                      /\ products'[i].category = products[i].category
                 ELSE products'[i] = products[i])]_vars

\* Two records, the updated one holds the new stock and the other a
\* different one.
C7_Witness ==
    /\ call.op = "updateStock"
    /\ call.ret = TRUE
    /\ Ge(call.newStock, Zero)
    /\ Len(products) = 2
    /\ \E i, j \in 1 .. 2 :
          /\ products[i].id = call.id
          /\ products[i].stock = call.newStock
          /\ products[j].stock # call.newStock

\* C8: updateStock returns false and leaves the collection unchanged when the
\* id is not found or newStock is negative, and returns true in every other
\* case.
C8_UpdateStockResult ==
    [][call'.op = "updateStock"
       => (/\ call'.ret = ~(~HasId(products, call'.id)
                            \/ Lt(call'.newStock, Zero))
           /\ (call'.ret = FALSE => products' = products))]_vars

\* A stock of zero on an existing id is one of the other cases.
C8_Witness ==
    /\ call.op = "updateStock"
    /\ call.newStock = Zero
    /\ call.ret = TRUE
    /\ HasId(products, call.id)

RECURSIVE SumOver(_, _)
SumOver(ps, S) ==
    IF S = {} THEN 0
    ELSE LET i == CHOOSE x \in S : TRUE
         IN ps[i].price.v * ps[i].stock.v + SumOver(ps, S \ {i})

\* The sum of price * stock over the records; NaN when a term is NaN.
TotalOf(ps) ==
    IF \E i \in 1 .. Len(ps) : ps[i].price.nan \/ ps[i].stock.nan
    THEN NaN
    ELSE Num(SumOver(ps, 1 .. Len(ps)))

\* C9: in every reachable state getTotalValue() is the sum of price * stock
\* over the records of the collection, 0 for the empty collection, and that
\* is what a call of it returns.
C9_TotalValueIsSumOfPriceTimesStock ==
    /\ getTotalValue(products) = TotalOf(products)
    /\ (products = <<>> => getTotalValue(products) = Zero)
    /\ (call.op = "getTotalValue" => call.ret = TotalOf(products))

\* Two valid products were added to the empty store, total 2*5 + 2*5.
C9_Witness ==
    /\ call.op = "getTotalValue"
    /\ Len(products) = 2
    /\ assigned = {1, 2}
    /\ call.ret = Num(20)

\* The threshold a call of getLowStockProducts uses: 5 when none is given.
UsedThreshold(args) == IF args = <<>> THEN Num(5) ELSE args[1]

\* C10: getLowStockProducts(threshold) returns exactly the records whose
\* stock is strictly below the threshold, in collection order; without an
\* argument the threshold is 5, so a record with stock 5 is not returned.
C10_LowStockIsStrictlyBelow ==
    call.op = "getLowStockProducts" =>
        LET t == UsedThreshold(call.args)
            low == {i \in 1 .. Len(products) : Lt(products[i].stock, t)}
        IN /\ Len(call.ret) = Cardinality(low)
           /\ \A i \in low : \E k \in 1 .. Len(call.ret) :
                 call.ret[k] = products[i]
           /\ \A k \in 1 .. Len(call.ret) : \E i \in low :
                 call.ret[k] = products[i]
           /\ \A k, l \in 1 .. Len(call.ret) : k < l =>
                 \E i, j \in low : /\ i < j
                                   /\ call.ret[k] = products[i]
                                   /\ call.ret[l] = products[j]
           /\ (call.args = <<>> =>
                 \A k \in 1 .. Len(call.ret) : call.ret[k].stock # Num(5))

\* Called without an argument on a store that holds a record with stock 5
\* and one with less: only the second is returned.
C10_Witness ==
    /\ call.op = "getLowStockProducts"
    /\ call.args = <<>>
    /\ Len(products) = 2
    /\ products[1].stock = Num(5)
    /\ products[2].stock = Zero
    /\ call.ret = <<products[2]>>

\* C11 as stated: getLowStockProducts(threshold) returns every record whose
\* stock is at or below the threshold, those with stock equal to it included.
C11_LowStockAtOrBelow ==
    call.op = "getLowStockProducts" =>
        \A i \in 1 .. Len(products) :
            Le(products[i].stock, UsedThreshold(call.args))
                => \E k \in 1 .. Len(call.ret) : call.ret[k] = products[i]

\* C11 as amended: getLowStockProducts(threshold) returns every record whose
\* stock is less than the threshold and no record whose stock equals it.
C11_LowStockBelowNotEqual ==
    call.op = "getLowStockProducts" =>
        /\ \A i \in 1 .. Len(products) :
              Lt(products[i].stock, UsedThreshold(call.args))
                  => \E k \in 1 .. Len(call.ret) : call.ret[k] = products[i]
        /\ \A k \in 1 .. Len(call.ret) :
              call.ret[k].stock # UsedThreshold(call.args)

\* Threshold 5 given explicitly, one record with stock 5 and one with less.
C11_Witness ==
    /\ call.op = "getLowStockProducts"
    /\ call.args = <<Num(5)>>
    /\ Len(products) = 2
    /\ products[1].stock = Zero
    /\ products[2].stock = Num(5)
    /\ call.ret = <<products[1]>>

\* Two characters are the same letter when case is ignored.
SameLetter(a, b) ==
    \/ a = b
    \/ \E i \in 1 .. Len(UpperCase) : {a, b} = {UpperCase[i], LowerCase[i]}

\* The text contains the query as a substring, case ignored.
ContainsIgnoringCase(text, query) ==
    \E k \in 0 .. (Len(text) - Len(query)) :
        \A i \in 1 .. Len(query) : SameLetter(text[k + i], query[i])

\* The indexes of the records a query matches by name or by category.
Matching(ps, query) ==
    {i \in 1 .. Len(ps) :
        \/ ContainsIgnoringCase(Chars(ps[i].name), Chars(query))
        \/ ContainsIgnoringCase(Chars(ps[i].category), Chars(query))}

\* The records of ps at the indexes in S, in the order of ps.
Pick(ps, S) ==
    [k \in 1 .. Cardinality(S) |->
        ps[CHOOSE i \in S : Cardinality({j \in S : j <= i}) = k]]

\* C12: searchProducts(query) returns exactly the records whose name or
\* category contains the query, case ignored on both sides, in collection
\* order, and an empty list when no name or category matches.
C12_SearchIsCaseInsensitiveSubstring ==
    call.op = "searchProducts" =>
        /\ call.ret = Pick(products, Matching(products, call.query))
        /\ (Matching(products, call.query) = {} => call.ret = <<>>)

\* An upper-case query that matches the second record only, by its name.
C12_Witness ==
    /\ call.op = "searchProducts"
    /\ call.query = "TOP"
    /\ Len(products) = 2
    /\ products[1].name = "Mouse"
    /\ products[2].name = "Laptop"
    /\ call.ret = <<products[2]>>

\* C13 as stated: searchProducts returns all matches as a list, an empty list
\* when nothing matches, and prints a diagnostic whenever the result is empty.
C13_SearchPrintsWhenEmpty ==
    call.op = "searchProducts" =>
        /\ DOMAIN call.ret = 1 .. Len(call.ret)
        /\ \A i \in Matching(products, call.query) :
              \E k \in 1 .. Len(call.ret) : call.ret[k] = products[i]
        /\ (Matching(products, call.query) = {} => call.ret = <<>>)
        /\ (call.ret = <<>> => call.out # <<>>)

\* C13 as amended: searchProducts returns all matches as a list and an empty
\* list when nothing matches; it prints nothing, also when the result is
\* empty.
C13_SearchPrintsNothing ==
    call.op = "searchProducts" =>
        /\ DOMAIN call.ret = 1 .. Len(call.ret)
        /\ \A i \in Matching(products, call.query) :
              \E k \in 1 .. Len(call.ret) : call.ret[k] = products[i]
        /\ (Matching(products, call.query) = {} => call.ret = <<>>)
        /\ call.out = <<>>

\* A query that matches nothing in a store that holds a record.
C13_Witness ==
    /\ call.op = "searchProducts"
    /\ call.query = "desk"
    /\ Len(products) >= 1
    /\ call.ret = <<>>
    /\ call.out = <<>>

\* C14: addProduct checks that price and stock are positive: a call with
\* stock = 0, or any stock that is not positive, returns false and adds
\* nothing.
C14_NonPositiveStockRejected ==
    [][(call'.op = "addProduct" /\ Le(call'.stock, Zero))
       => (call'.ret = FALSE /\ products' = products)]_vars

Mutators == {"addProduct", "removeProduct", "updateStock"}

\* The call of solution.js that a step makes is one the claim calls a
\* failure: a bad price, a bad stock or an unknown id.
Failure(c, before) ==
    \/ c.op = "addProduct" /\ (Le(c.price, Zero) \/ Lt(c.stock, Zero))
    \/ c.op = "removeProduct" /\ ~HasId(before, c.id)
    \/ c.op = "updateStock" /\ (~HasId(before, c.id) \/ Lt(c.newStock, Zero))

\* The call is one that both scripts carry out.
Success(c, before) ==
    \/ c.op = "addProduct" /\ Gt(c.price, Zero) /\ Ge(c.stock, Zero)
    \/ c.op = "removeProduct" /\ HasId(before, c.id)
    \/ c.op = "updateStock" /\ HasId(before, c.id) /\ Gt(c.newStock, Zero)

\* C15: in both inventory scripts every failure of addProduct, removeProduct
\* and updateStock returns false and prints a diagnostic, every success
\* returns true, and no call returns anything but a boolean.
C15_FailuresFalseSuccessesTrue ==
    [][/\ (call'.op \in Mutators =>
             /\ call'.ret \in BOOLEAN
             /\ (Failure(call', products)
                   => call'.ret = FALSE /\ call'.out # <<>>)
             /\ (Success(call', products) => call'.ret = TRUE))
       /\ (mCall'.op \in Mutators =>
             /\ mCall'.ret.type = "boolean"
             /\ (Failure(mCall', mProducts)
                   => mCall'.ret = JsBool(FALSE) /\ mCall'.out # <<>>)
             /\ (Success(mCall', mProducts) => mCall'.ret = JsBool(TRUE)))
      ]_allVars

\* A printed line that shows the record: its id, name, category and stock,
\* and its price with two decimals.
Shows(l, p) ==
    /\ l.line = "product"
    /\ l.id = p.id
    /\ l.name = p.name
    /\ l.category = p.category
    /\ l.stock = p.stock
    /\ l.price = IF p.price.nan THEN [text |-> "NaN"]
                 ELSE [int |-> p.price.v, frac |-> <<0, 0>>]

\* C16 as stated: for a collection that is not empty displayProducts prints
\* every record and also the total inventory value, the sum of price * stock.
C16_DisplayPrintsRecordsAndTotal ==
    (call.op = "displayProducts" /\ products # <<>>) =>
        /\ \A i \in 1 .. Len(products) :
              \E k \in 1 .. Len(call.out) : Shows(call.out[k], products[i])
        /\ \E k \in 1 .. Len(call.out) :
              /\ call.out[k].line = "total"
              /\ call.out[k].value = TotalOf(products)

\* C16 as amended: for a collection that is not empty displayProducts prints
\* every record, one after the other in collection order below a two-line
\* heading; it does not print the total inventory value.
C16_DisplayPrintsRecordsOnly ==
    (call.op = "displayProducts" /\ products # <<>>) =>
        /\ Len(call.out) = Len(products) + 2
        /\ \A i \in 1 .. Len(products) : Shows(call.out[i + 2], products[i])
        /\ \A k \in 1 .. Len(call.out) : call.out[k].line # "total"

C16_Witness ==
    /\ call.op = "displayProducts"
    /\ Len(products) = 2
    /\ products[1] # products[2]
    /\ Shows(call.out[3], products[1])
    /\ Shows(call.out[4], products[2])

----------------------------------------------------------------------------
(* The Pokemon team builder.                                               *)

\* The step is a call of addToTeam.
AddToTeamCalled ==
    event' \in {"addToTeam: team is full", "addToTeam: TypeError",
                "addToTeam: already in team", "addToTeam: added"}

\* C17: from an empty or app-written localStorage, whatever searches, adds,
\* removals and reloads happen, the team never holds more than 6 Pokemon,
\* and addToTeam on a team of 6 leaves myTeam and localStorage unchanged.
C17_TeamNeverOverSix ==
    /\ Len(myTeam) <= 6
    /\ [][/\ Len(myTeam') <= 6
          /\ (AddToTeamCalled /\ Len(myTeam) = 6) =>
                 (myTeam' = myTeam /\ localStorage' = localStorage)]_allVars

\* addToTeam was refused on a team of 6 with a found Pokemon that is not a
\* member.
C17_Witness ==
    /\ event = "addToTeam: team is full"
    /\ Len(myTeam) = 6
    /\ currentPokemon # JsNull
    /\ \A i \in 1 .. Len(myTeam) : myTeam[i].name # currentPokemon.name

\* No two members of the team have the same name.
NoTwoSameName(team) ==
    \A i, j \in 1 .. Len(team) : team[i].name = team[j].name => i = j

\* C18: whatever searches, adds and removals happen, no two team members
\* have the same name, and addToTeam of a Pokemon whose name is already in
\* the team leaves myTeam and localStorage unchanged.
C18_NoDuplicateNames ==
    /\ NoTwoSameName(myTeam)
    /\ [][/\ NoTwoSameName(myTeam')
          /\ (/\ AddToTeamCalled
              /\ currentPokemon # JsNull
              /\ \E i \in 1 .. Len(myTeam) :
                     myTeam[i].name = currentPokemon.name) =>
                 (myTeam' = myTeam /\ localStorage' = localStorage)]_allVars

\* addToTeam was refused for a Pokemon that is a member, and not the first.
C18_Witness ==
    /\ event = "addToTeam: already in team"
    /\ currentPokemon # JsNull
    /\ \E i \in 2 .. Len(myTeam) : myTeam[i].name = currentPokemon.name

\* C19: after every completed addToTeam or removeFromTeam the value under
\* 'pokemonTeam' decodes to the current myTeam, and a reload restores the
\* team that existed before it, in the same order.
C19_TeamPersistsAcrossReload ==
    [][/\ event' \in {"addToTeam: added", "removeFromTeam"} =>
              JSONparse(localStorage') = [type |-> "array", items |-> myTeam']
       /\ event' = "load" => myTeam' = myTeam]_allVars

\* The page was reloaded on a team that was changed since it was stored: a
\* saved member is gone and a Pokemon without image has joined.
C19_Witness ==
    /\ event = "load"
    /\ Len(myTeam) >= 2
    /\ myTeam # SavedTeam
    /\ myTeam[Len(myTeam)] = [name |-> "eevee", img |-> JsNull]
    /\ \E i \in 1 .. Len(SavedTeam) :
           \A j \in 1 .. Len(myTeam) : myTeam[j].name # SavedTeam[i].name
    /\ localStorage = JSONstringify(myTeam)

----------------------------------------------------------------------------
(* The week-3 counter.                                                     *)

\* C20: from count = 0, whatever decrement clicks and key presses happen,
\* count stays within [-10, 10], and after each update the element has the
\* class 'limit-reached' exactly when count is -10 or 10.
C20_CountWithinLimitsAndFeedback ==
    /\ count >= -10
    /\ count <= 10
    /\ ("limit-reached" \in classList) <=> (count = -10 \/ count = 10)

\* A click on the decrement button has brought the count to the lower
\* limit, and the feedback is shown.
C20_Witness ==
    /\ lastEvent = "click decrement"
    /\ count = -10
    /\ textContent = <<"-", "1", "0">>
    /\ "limit-reached" \in classList

----------------------------------------------------------------------------
(* The two inventory scripts side by side.                                 *)

\* The step calls updateStock on an id in the collection with newStock 0.
ZeroStockUpdate ==
    /\ call'.op = "updateStock"
    /\ HasId(products, call'.id)
    /\ call'.newStock = Num(0)

\* C21: driven by the same calls of addProduct, removeProduct and
\* updateStock, solution.js and the monday.md script keep equal collections,
\* except for updateStock on an existing id with newStock = 0, which
\* solution.js accepts and the monday.md script rejects.
C21_VariantsAgreeExceptZeroStock ==
    [][(products = mProducts /\ nextId = mId) =>
          /\ nextId' = mId'
          /\ IF ZeroStockUpdate
             THEN /\ call'.ret = TRUE
                  /\ \E i \in 1 .. Len(products') :
                         /\ products'[i].id = call'.id
                         /\ products'[i].stock = Num(0)
                  /\ mCall'.ret = JsBool(FALSE)
                  /\ mProducts' = mProducts
             ELSE products' = mProducts']_allVars

\* updateStock with 0 has just made the collections differ: the record had
\* another stock, solution.js has set it to 0 and the other script has not.
C21_Witness ==
    /\ call.op = "updateStock"
    /\ call.newStock = Num(0)
    /\ call.ret = TRUE
    /\ mCall.ret = JsBool(FALSE)
    /\ Len(products) = Len(mProducts)
    /\ \E i \in 1 .. Len(products) :
           /\ products[i].id = call.id
           /\ products[i].stock = Num(0)
           /\ mProducts[i].stock = Num(5)
           /\ \A j \in 1 .. Len(products) : j # i => products[j] = mProducts[j]

\* C22: when the searches in flight have all come back, in whatever order,
\* the Pokemon held in currentPokemon and shown in the result area is the
\* one of the search started last, not of an earlier one.
C22_LatestSearchWins ==
    (pending = <<>> /\ reading = <<>> /\ event = "search: found") =>
        /\ currentPokemon.name = lastStarted
        /\ pokemonResult.kind = "card"
        /\ pokemonResult.name = lastStarted

\* The result area shows a card, and with it the Add to Team button.
ButtonShown == pokemonResult.kind = "card"

\* The Pokemon held is the one whose card is shown.
CurrentIsShown ==
    ButtonShown =>
        /\ currentPokemon # JsNull
        /\ currentPokemon.name = pokemonResult.name
        /\ currentPokemon.sprites.front_default = pokemonResult.img

\* C23: under any interleaving of searches and team operations, whenever the
\* Add to Team button is shown currentPokemon is non-null and is the Pokemon
\* of the card, so addToTeam from the button never reads a null
\* currentPokemon and adds no Pokemon but the one displayed.
C23_ButtonImpliesCurrentPokemon ==
    /\ CurrentIsShown
    /\ [][/\ CurrentIsShown'
          /\ (ButtonShown /\ AddToTeamCalled) =>
                 /\ event' # "addToTeam: TypeError"
                 /\ event' = "addToTeam: added" =>
                        myTeam' = Append(myTeam, [name |-> pokemonResult.name,
                                                  img |-> pokemonResult.img])]_allVars

\* The displayed Pokemon was added from its card, to a team that had a
\* member already, while a later search had its ok response and was
\* waiting for the body.
C23_Witness ==
    /\ event = "addToTeam: added"
    /\ ButtonShown
    /\ reading # <<>>
    /\ reading[1] # pokemonResult.name
    /\ Len(myTeam) >= 2
    /\ myTeam[Len(myTeam)].name = pokemonResult.name

\* The names pokeapi.co answers with a Pokemon, read off the cards and
\* team entries the page can show.
KnownNames == {"pikachu", "eevee"}

\* The step ends a search for a name the API does not know: its response
\* came back not ok.
InvalidNameAnswered ==
    /\ event' = "search: failed"
    /\ arg' \notin KnownNames
    /\ \E k \in 1 .. Len(pending) :
           pending[k] = arg' /\ pending' = Without(pending, k)

\* The step is a call of searchPokemon with nothing typed.
EmptySearch == event' = "search: no input" /\ arg' = ""

\* C24: a search for an invalid name ends with an error card in the result
\* area and currentPokemon null, and leaves myTeam and localStorage as they
\* were; a search with empty input sends no request and leaves
\* currentPokemon, the result area, myTeam and localStorage as they were.
C24_InvalidAndEmptySearch ==
    [][/\ InvalidNameAnswered =>
              /\ pokemonResult' = [kind |-> "error",
                                   message |-> "Pokemon not found"]
              /\ currentPokemon' = JsNull
              /\ myTeam' = myTeam
              /\ localStorage' = localStorage
       /\ EmptySearch =>
              /\ pending' = pending
              /\ currentPokemon' = currentPokemon
              /\ pokemonResult' = pokemonResult
              /\ myTeam' = myTeam
              /\ localStorage' = localStorage
       /\ (event' \in {"search: no input", "search: fetch sent"}) =>
              ((arg' = "") <=> (pending' = pending))]_allVars

\* A search for an unknown name has ended in the error card, on a page
\* whose team holds a Pokemon added from an earlier card.
C24_Witness ==
    /\ event = "search: failed"
    /\ arg = "missingno"
    /\ pokemonResult.kind = "error"
    /\ currentPokemon = JsNull
    /\ myTeam # <<>>
    /\ myTeam[Len(myTeam)].name \in KnownNames

\* The members of the team that do not have the name, in their order.
RECURSIVE Others(_, _)
Others(team, name) ==
    IF team = <<>> THEN <<>>
    ELSE IF team[1].name = name THEN Others(Tail(team), name)
    ELSE <<team[1]>> \o Others(Tail(team), name)

\* C25: removeFromTeam(name) removes the member with that name and no
\* other: afterwards no member has the name and the others are there in
\* their previous order; with a name not in the team myTeam is unchanged,
\* and a second call with the same name changes nothing more.
C25_RemoveFromTeamRemovesOnlyNamed ==
    [][event' = "removeFromTeam" =>
          /\ \A i \in 1 .. Len(myTeam') : myTeam'[i].name # arg'
          /\ myTeam' = Others(myTeam, arg')
          /\ (\A i \in 1 .. Len(myTeam) : myTeam[i].name # arg') =>
                 myTeam' = myTeam
          /\ (event = "removeFromTeam" /\ arg = arg') =>
                 myTeam' = myTeam]_allVars

\* A member from the middle of the team has been removed and the members
\* around it are left in their order.
C25_Witness ==
    /\ event = "removeFromTeam"
    /\ arg = "snorlax"
    /\ Len(myTeam) >= 5
    /\ myTeam[3].name = "squirtle"
    /\ myTeam[4].name = "mew"
    /\ myTeam[5].name \in KnownNames

----------------------------------------------------------------------------
(* solution.js: frame, id order and removed ids.                           *)

QueryOps ==
    {"searchProducts", "getTotalValue", "getLowStockProducts",
     "displayProducts"}

\* C26: searchProducts, getTotalValue, getLowStockProducts and
\* displayProducts leave the collection and the id counter as they were, in
\* every reachable store, so a query between two mutating calls does not
\* change what the later call does.
C26_QueriesChangeNothing ==
    [][call'.op \in QueryOps =>
          (products' = products /\ nextId' = nextId)]_allVars

\* A search on a store of several records has returned some of them and
\* not others.
C26_Witness ==
    /\ call.op = "searchProducts"
    /\ Len(products) >= 2
    /\ call.ret # <<>>
    /\ Len(call.ret) < Len(products)

\* C27: a rejected addProduct (price <= 0 or stock < 0) does not consume an
\* id: the id counter is unchanged, so the records added get the ids
\* 1, 2, 3, ... in the order of the successful adds, with no gap where a
\* call was rejected.
C27_RejectedAddConsumesNoId ==
    /\ [](assigned = 1 .. Cardinality(assigned))
    /\ [][call'.op = "addProduct" =>
             IF Le(call'.price, Zero) \/ Lt(call'.stock, Zero)
             THEN nextId' = nextId /\ assigned' = assigned
             ELSE /\ Len(products') = Len(products) + 1
                  /\ products'[Len(products')].id = Cardinality(assigned) + 1
                  /\ assigned' = 1 .. (Cardinality(assigned) + 1)]_allVars

\* An addProduct with a negative stock was rejected after one record had
\* been added: the counter still stands at 2.
C27_Witness ==
    /\ call.op = "addProduct"
    /\ call.ret = FALSE
    /\ call.stock = Num(-1)
    /\ Len(products) = 1
    /\ assigned = {1}
    /\ nextId = 2

\* C28: in every reachable store the records are in strictly increasing id
\* order, nextId is greater than the id of every record, and nextId is 1
\* plus the number of successful addProduct calls so far.
C28_IdsIncreasingBelowNextId ==
    /\ \A i, j \in 1 .. Len(products) :
           i < j => products[i].id < products[j].id
    /\ \A i \in 1 .. Len(products) : products[i].id < nextId
    /\ nextId = 1 + Cardinality(assigned)

\* Two adds have succeeded and the first record has been removed: the
\* counter stays above the record left.
C28_Witness ==
    /\ call.op = "removeProduct"
    /\ call.ret = TRUE
    /\ nextId = 3
    /\ Len(products) = 1
    /\ products[1].id = 2

\* The ids whose removeProduct has returned true: assigned, and no longer
\* in the collection.
Removed == assigned \ IdsOf(products)

\* C29: once removeProduct(id) has returned true, no record with that id is
\* ever in the collection again, and every later removeProduct(id) and
\* updateStock(id, n) returns false, whatever happens in between.
C29_RemovedIdStaysRemoved ==
    [][/\ \A id \in Removed : id \notin IdsOf(products')
       /\ (/\ call'.op \in {"removeProduct", "updateStock"}
           /\ call'.id \in Removed) => call'.ret = FALSE]_allVars

\* removeProduct is refused for an id that was removed before, after a
\* later record has been added.
C29_Witness ==
    /\ call.op = "removeProduct"
    /\ call.ret = FALSE
    /\ call.id = 1
    /\ 1 \in Removed
    /\ 2 \in IdsOf(products)

\* C30: updateStock looks the id up before it validates the stock: with an
\* unknown id and a negative newStock it reports 'Product not found!', not
\* the negative-stock message, returns false and changes nothing.
C30_UnknownIdBeforeNegativeStock ==
    [][(/\ call'.op = "updateStock"
        /\ ~HasId(products, call'.id)
        /\ Lt(call'.newStock, Zero)) =>
          /\ call'.out = <<[line |-> "Product not found!"]>>
          /\ call'.ret = FALSE
          /\ products' = products
          /\ nextId' = nextId]_allVars

\* updateStock with a negative stock was refused for an id that is not in
\* a store that holds a record.
C30_Witness ==
    /\ call.op = "updateStock"
    /\ call.newStock = Num(-1)
    /\ call.ret = FALSE
    /\ call.out = <<[line |-> "Product not found!"]>>
    /\ products # <<>>
    /\ ~HasId(products, call.id)

====
